---- MODULE Spec2Model ----
(***************************************************************************)
(* A model of main.py: the query builder (get_query), the paginated result *)
(* iterator (iterate_jql_results) and the three commands built on it (jql, *)
(* remap_user, copy_watchers), run against a remote issue tracker whose    *)
(* calls may fail.                                                         *)
(*                                                                         *)
(* Python values are modelled as follows: a str is a TLA+ string, a dict   *)
(* is a function on its keys (a record where the keys are fixed), a list   *)
(* is a sequence, and an optional value is None (the empty tuple) or       *)
(* Some(v) (the one-element tuple holding v).                              *)
(***************************************************************************)
EXTENDS Naturals, Sequences, FiniteSets, TLC

VARIABLES
    \* the command line of the invocation (main, lines 202-255)
    command,                    \* "jql" | "remap-user" | "copy-watchers"
    apply_changes,              \* --apply-changes
    seed_query,                 \* --seed-query (remap-user) or --query (jql), optional
    jira_url,                   \* --jira-url
    \* the remote tracker
    issue_fields,               \* key -> the issue's "fields" object
    issue_watchers,             \* key -> the account ids watching the issue
    updated_order,              \* the issues' keys, least recently updated first
    initial_watchers,           \* issue_watchers before the first run; never changes
    fail_budget,                \* how many more remote calls may fail
    \* the running command
    pc,                         \* position of the command
    run,                        \* number of the invocation (1 is the first)
    scan,                       \* which for-loop drives the iterator
    query,                      \* iterate_jql_results: query
    start,                      \* iterate_jql_results: start
    response,                   \* iterate_jql_results: response["issues"]
    idx,                        \* position of the for-loop in response["issues"]
    issues_updated,             \* the success counter of remap_user / copy_watchers
    target_user_watching_keys,  \* copy_watchers: the snapshot set
    \* what the run did, in order: remote calls, yields, printed lines
    log,
    \* get_query applied to drawn inputs (specification SpecQuery)
    q_seed, q_cutoff, q_result

vars == << command, apply_changes, seed_query, jira_url, initial_watchers,
           issue_fields, issue_watchers, updated_order, fail_budget,
           pc, run, scan, query, start, response, idx,
           issues_updated, target_user_watching_keys, log,
           q_seed, q_cutoff, q_result >>

\* what no step changes
args_vars == << command, apply_changes, seed_query, jira_url, initial_watchers >>
tracker_vars == << issue_fields, issue_watchers, updated_order >>
iter_vars == << scan, query, start, response, idx >>
query_vars == << q_seed, q_cutoff, q_result >>

-----------------------------------------------------------------------------
(* Bounds of the model. *)

\* The page size of iterate_jql_results. The source fixes it at 100; the
\* model explores a small page size so that full, short and empty pages and
\* scans of several pages all occur. Every formula is stated in terms of limit.
limit == 2

\* The tracker holds at most this many issues.
MaxIssues == 3

\* A remote call may fail; at most this many calls fail in one behaviour.
MaxFailures == 2

\* copy-watchers may be invoked again after it ended, up to this many runs.
MaxRuns == 2

\* The tracker holds at most this many issues when one scan is followed
\* against a result set that does not change (specification SpecScan).
MaxScanIssues == 5

-----------------------------------------------------------------------------
(* Python values. *)

None == << >>
Some(v) == << v >>

\* dict: the empty dict, d[k] = v, and truthiness
EmptyDict == [k \in {} |-> None]
Put(d, k, v) == [x \in (DOMAIN d) \cup {k} |-> IF x = k THEN v ELSE d[x]]

Min(a, b) == IF a < b THEN a ELSE b

\* str.endswith
EndsWith(s, suffix) ==
    /\ Len(s) >= Len(suffix)
    /\ SubSeq(s, Len(s) - Len(suffix) + 1, Len(s)) = suffix

\* str.rstrip('/')
RECURSIVE rstrip_slash(_)
rstrip_slash(s) ==
    IF Len(s) > 0 /\ SubSeq(s, Len(s), Len(s)) = "/"
    THEN rstrip_slash(SubSeq(s, 1, Len(s) - 1))
    ELSE s

\* the elements of a sequence
Range(s) == { s[i] : i \in DOMAIN s }

RECURSIVE Filter(_, _)
\* the subsequence of s of the elements in the set keep
Filter(s, keep) ==
    IF s = << >> THEN << >>
    ELSE IF Head(s) \in keep THEN << Head(s) >> \o Filter(Tail(s), keep)
    ELSE Filter(Tail(s), keep)

-----------------------------------------------------------------------------
(* The inputs of the model. *)

Commands == { "jql", "remap-user", "copy-watchers" }

\* the account ids known to the tracker
Users == { "alice", "bob", "carol" }

\* --source-user-id and --target-user-id
source_user_id == "alice"
target_user_id == "bob"

\* the key of the i-th issue of the tracker's one project
IssueKey(i) == "X-" \o ToString(i)

\* all keys, in key order
AllKeys == [i \in 1..MaxIssues |-> IssueKey(i)]

KeysUpTo(n) == { IssueKey(i) : i \in 1..n }

\* a user reference, {"accountId": u}
UserRef(u) == [accountId |-> u]

\* the people of an issue as the tracker may hold them before the run:
\* creator is always present, assignee and reporter are optional. The
\* choices make every subset of the three fields hold the source user, and
\* make each optional field absent, the source user and another user.
OptionalPairs ==
    { << None, None >>,
      << Some(UserRef("carol")), Some(UserRef("carol")) >>,
      << Some(UserRef("alice")), Some(UserRef("carol")) >>,
      << None, Some(UserRef("alice")) >>,
      << Some(UserRef("alice")), Some(UserRef("alice")) >> }

PeopleChoices ==
    { [creator |-> UserRef(c), assignee |-> ar[1], reporter |-> ar[2]] :
        c \in { "alice", "carol" }, ar \in OptionalPairs }

DefaultPeople == [creator |-> UserRef("carol"), assignee |-> None, reporter |-> None]

-----------------------------------------------------------------------------
(* get_query, lines 18-26. *)

SortClause == " ORDER BY Updated ASC"

\* x or '' for an optional str x
OrEmpty(x) == IF x = None THEN "" ELSE x[1]

\* the truth value of an optional str: None and '' are false
Truthy(x) == x # None /\ x[1] # ""

\* get_query with "=" for "+=" in the cutoff branch: the seed is lost
get_query_assigns(seed, cutoff_date) ==
    LET q0 == OrEmpty(seed)
    IN  IF Truthy(cutoff_date)
        THEN " Updated >= \"" \o cutoff_date[1] \o "\" ORDER BY Updated ASC"
        ELSE q0 \o " ORDER BY Updated ASC"

get_query(seed, cutoff_date) ==
    LET q0 == OrEmpty(seed)
    IN  IF Truthy(cutoff_date)
        THEN q0 \o " Updated >= \"" \o cutoff_date[1] \o "\" ORDER BY Updated ASC"
        ELSE q0 \o " ORDER BY Updated ASC"

-----------------------------------------------------------------------------
(* The remote tracker: search, user lookups, update_issue, add_watcher. *)

\* 'watcher = "%s"' % u, lines 165-166
WatcherQuery(u) == "watcher = \"" \o u \o "\""

\* the issue as the search endpoint returns it
IssueRecord(k) ==
    [key |-> k,
     fields |-> [creator  |-> issue_fields[k].creator,
                 assignee |-> issue_fields[k].assignee,
                 reporter |-> issue_fields[k].reporter,
                 created  |-> "2024-01-01 " \o k,
                 summary  |-> "summary of " \o k]]

\* a query without its ORDER BY clause
FilterOf(q) ==
    IF EndsWith(q, SortClause) THEN SubSeq(q, 1, Len(q) - Len(SortClause)) ELSE q

\* the keys of the issues a filter selects: every issue is in project X,
\* the one project, and the filters of the commands are the empty one,
\* "project = X" and the watcher filters
Matching(f) ==
    IF f \in { "", "project = X" }
    THEN Range(updated_order)
    ELSE { k \in Range(updated_order) : \E u \in issue_watchers[k] : f = WatcherQuery(u) }

\* search(query, start, limit): the issues selected by the query, by last
\* update (ascending) when the query asks for that order and in key order
\* otherwise, from offset start_ (0-based), at most limit_ of them
SearchResult(q, start_, limit_) ==
    LET base == IF EndsWith(q, SortClause)
                THEN updated_order
                ELSE Filter(AllKeys, Range(updated_order))
        hits == Filter(base, Matching(FilterOf(q)))
        page == SubSeq(hits, start_ + 1, Min(start_ + limit_, Len(hits)))
    IN  [i \in 1..Len(page) |-> IssueRecord(page[i])]

\* update_issue(key, {"fields": updates}) on the tracker: the named fields
\* are overwritten and the issue becomes the most recently updated one
FieldsAfterUpdate(k, updates) ==
    [issue_fields EXCEPT ![k] =
        [creator  |-> IF "creator" \in DOMAIN updates
                      THEN updates["creator"] ELSE @.creator,
         assignee |-> IF "assignee" \in DOMAIN updates
                      THEN Some(updates["assignee"]) ELSE @.assignee,
         reporter |-> IF "reporter" \in DOMAIN updates
                      THEN Some(updates["reporter"]) ELSE @.reporter]]

OrderAfterUpdate(k) == Filter(updated_order, Range(updated_order) \ {k}) \o << k >>

-----------------------------------------------------------------------------
(* The state after the command line is parsed and the client is built,     *)
(* main, lines 202-234.                                                    *)

Init ==
    /\ command \in Commands
    /\ apply_changes \in (IF command = "jql" THEN { FALSE } ELSE BOOLEAN)
    /\ seed_query \in (CASE command = "jql" -> { Some("project = X"), Some("") }
                         [] OTHER -> { None })
    /\ jira_url \in (IF command = "jql"
                     THEN { "https://jira", "https://jira/", "https://jira//" }
                     ELSE { "https://jira" })
    /\ \E n \in 0..MaxIssues :
        /\ updated_order = [i \in 1..n |-> IssueKey(i)]
        /\ issue_fields \in (IF command = "remap-user"
                             THEN [KeysUpTo(n) -> PeopleChoices]
                             ELSE { [k \in KeysUpTo(n) |-> DefaultPeople] })
        /\ issue_watchers \in (IF command = "copy-watchers"
                               THEN [KeysUpTo(n) -> SUBSET { source_user_id, target_user_id }]
                               ELSE { [k \in KeysUpTo(n) |-> {}] })
    /\ initial_watchers = issue_watchers
    /\ fail_budget = MaxFailures
    /\ pc = "main"
    /\ run = 1
    /\ scan = "none"
    /\ query = ""
    /\ start = 0
    /\ response = << >>
    /\ idx = 0
    /\ issues_updated = 0
    /\ target_user_watching_keys = {}
    /\ log = << >>
    /\ q_seed = None
    /\ q_cutoff = None
    /\ q_result = None

-----------------------------------------------------------------------------
(* Remote calls that read: jira_api.myself, jira_api.user, jira_api.jql.   *)
(* None of them is inside a try block, so an exception raised by one       *)
(* unwinds the command up to __main__, lines 261-266, which exits.         *)

\* a read that raised is caught and the statement at p run again
AfterReadError_retry(p) == p

\* where the command is after a read raised at p
AfterReadError(p) == "failed"

ReadFails(ev) ==
    /\ fail_budget > 0
    /\ fail_budget' = fail_budget - 1
    /\ log' = Append(log, ev)
    /\ pc' = AfterReadError(pc)
    /\ UNCHANGED << args_vars, tracker_vars, run, iter_vars, issues_updated,
                    target_user_watching_keys, query_vars >>

\* iterate_jql_results is entered: lines 33-34
IterStart(sc, q) ==
    /\ scan' = sc
    /\ query' = q
    /\ start' = 0
    /\ response' = << >>
    /\ idx' = 0
    /\ pc' = "fetch"

YieldEvent(issue) == [kind |-> "yield", run |-> run, scan |-> scan, issue |-> issue]

-----------------------------------------------------------------------------
(* iterate_jql_results, lines 29-53. *)

\* last_page testing for an empty page instead of a short one
last_page_empty(resp) == Len(resp) = 0

\* last_page with "<=" for "<": a full page ends the scan too
last_page_inclusive(resp) == Len(resp) <= limit

\* line 49
last_page(resp) == Len(resp) < limit

\* next_start counting pages instead of records
next_start_pages(s, resp) == s + 1

\* line 53
next_start(s, resp) == s + Len(resp)

\* lines 37-44: the fetch of one page
IterFetch ==
    /\ pc = "fetch"
    /\ \/ /\ response' = SearchResult(query, start, limit)
          /\ idx' = 1
          /\ pc' = "loop"
          /\ log' = Append(log, [kind |-> "search", run |-> run, scan |-> scan,
                                 query |-> query, start |-> start, limit |-> limit,
                                 ok |-> TRUE, issues |-> response'])
          /\ UNCHANGED << args_vars, tracker_vars, fail_budget, run, scan, query,
                          start, issues_updated, target_user_watching_keys,
                          query_vars >>
       \/ ReadFails([kind |-> "search", run |-> run, scan |-> scan,
                     query |-> query, start |-> start, limit |-> limit,
                     ok |-> FALSE, issues |-> << >>])

\* lines 49-53 when the page was full: go on with the next page
IterNextPage ==
    /\ pc = "loop"
    /\ idx > Len(response)
    /\ ~last_page(response)
    /\ start' = next_start(start, response)
    /\ pc' = "fetch"
    /\ UNCHANGED << args_vars, tracker_vars, fail_budget, run, scan, query,
                    response, idx, issues_updated, target_user_watching_keys,
                    log, query_vars >>

\* lines 49-51 when the page was short: the generator ends, and so does the
\* for-loop of jql (line 64), remap_user (line 148) or the second loop of
\* copy_watchers (line 194), the last statement of each
IterStop ==
    /\ pc = "loop"
    /\ idx > Len(response)
    /\ last_page(response)
    /\ scan # "snapshot"
    /\ pc' = "done"
    /\ UNCHANGED << args_vars, tracker_vars, fail_budget, run, iter_vars,
                    issues_updated, target_user_watching_keys, log, query_vars >>

-----------------------------------------------------------------------------
(* Dry-run and the success counter, shared by remap_user and copy_watchers. *)

\* DryRun with the test of apply_changes lost: every run applies
DryRun_ignored == FALSE

\* "if not apply_changes", lines 107 and 175
DryRun == ~apply_changes

\* RequestKey reading the key of the page's last issue, not of the issue
\* being processed
RequestKey_last_of_page(issue) == response[Len(response)].key

\* issue["key"] as the argument of the remote call, lines 114 and 181
RequestKey(issue) == issue.key

\* "issues_updated += 1", lines 115 and 182
Counted(n) == n + 1

\* the counter with the increment placed before the remote call: a call
\* that raises is counted too
Uncounted_counted(n) == n + 1

\* the counter after a remote call raised: lines 116-117 and 183-184 only
\* log the error, line 115 or 182 was not reached
Uncounted(n) == n

-----------------------------------------------------------------------------
(* jql, lines 56-71. *)

\* JqlLine with the url left as given, its trailing slashes kept
JqlLine_raw_url(issue) ==
    [key     |-> issue.key,
     url     |-> jira_url \o "/browse/" \o issue.key,
     created |-> issue.fields.created,
     summary |-> issue.fields.summary]

\* lines 62 and 65-70
JqlLine(issue) ==
    [key     |-> issue.key,
     url     |-> rstrip_slash(jira_url) \o "/browse/" \o issue.key,
     created |-> issue.fields.created,
     summary |-> issue.fields.summary]

\* line 60 and the entry of the for-loop of line 64
JqlStart ==
    /\ pc = "main"
    /\ command = "jql"
    /\ IterStart("jql", get_query(seed_query, None))
    /\ UNCHANGED << args_vars, tracker_vars, fail_budget, run, issues_updated,
                    target_user_watching_keys, log, query_vars >>

\* lines 64-71: the body of the for-loop for one yielded issue
JqlPrint ==
    /\ pc = "loop"
    /\ scan = "jql"
    /\ idx <= Len(response)
    /\ log' = log \o << YieldEvent(response[idx]),
                        [kind |-> "print", run |-> run,
                         line |-> JqlLine(response[idx])] >>
    /\ idx' = idx + 1
    /\ UNCHANGED << args_vars, tracker_vars, fail_budget, pc, run, scan, query,
                    start, response, issues_updated, target_user_watching_keys,
                    query_vars >>

-----------------------------------------------------------------------------
(* remap_user, lines 74-151. *)

\* line 83
RemapMyself ==
    /\ pc = "main"
    /\ command = "remap-user"
    /\ \/ /\ log' = Append(log, [kind |-> "myself", run |-> run, ok |-> TRUE])
          /\ pc' = "remap_target_user"
          /\ UNCHANGED << args_vars, tracker_vars, fail_budget, run, iter_vars,
                          issues_updated, target_user_watching_keys, query_vars >>
       \/ ReadFails([kind |-> "myself", run |-> run, ok |-> FALSE])

\* lines 90-102 and the entry of the for-loop of line 148
RemapTargetUser ==
    /\ pc = "remap_target_user"
    /\ \/ /\ log' = Append(log, [kind |-> "user", run |-> run,
                                 account_id |-> target_user_id, ok |-> TRUE])
          /\ issues_updated' = 0
          /\ IterStart("remap", get_query(seed_query, None))
          /\ UNCHANGED << args_vars, tracker_vars, fail_budget, run,
                          target_user_watching_keys, query_vars >>
       \/ ReadFails([kind |-> "user", run |-> run,
                     account_id |-> target_user_id, ok |-> FALSE])

\* RemapUpdates with the reporter branch writing the assignee key
RemapUpdates_wrong_key(issue) ==
    LET fields   == issue.fields
        creator  == fields.creator
        assignee == fields.assignee
        reporter == fields.reporter
        u0 == EmptyDict
        u1 == IF creator.accountId = source_user_id
              THEN Put(u0, "creator", UserRef(target_user_id)) ELSE u0
        u2 == IF assignee # None /\ assignee[1].accountId = source_user_id
              THEN Put(u1, "assignee", UserRef(target_user_id)) ELSE u1
        u3 == IF reporter # None /\ reporter[1].accountId = source_user_id
              THEN Put(u2, "assignee", UserRef(target_user_id)) ELSE u2
    IN  u3

\* lines 121-141: the updates dict of process_issue
RemapUpdates(issue) ==
    LET fields   == issue.fields
        creator  == fields.creator
        assignee == fields.assignee
        reporter == fields.reporter
        u0 == EmptyDict
        u1 == IF creator.accountId = source_user_id
              THEN Put(u0, "creator", UserRef(target_user_id)) ELSE u0
        u2 == IF assignee # None /\ assignee[1].accountId = source_user_id
              THEN Put(u1, "assignee", UserRef(target_user_id)) ELSE u1
        u3 == IF reporter # None /\ reporter[1].accountId = source_user_id
              THEN Put(u2, "reporter", UserRef(target_user_id)) ELSE u2
    IN  u3

\* HasUpdates with the test lost: a request is sent for every issue
HasUpdates_always(updates) == TRUE

\* "if updates", line 143
HasUpdates(updates) == DOMAIN updates # {}

\* the nested update_issue, lines 104-117; log0 is the log so far
update_issue(issue, updates, log0) ==
    \/ /\ DryRun
       /\ log' = log0
       /\ UNCHANGED << tracker_vars, fail_budget, issues_updated >>
    \/ /\ ~DryRun
       /\ issue_fields' = FieldsAfterUpdate(RequestKey(issue), updates.fields)
       /\ updated_order' = OrderAfterUpdate(RequestKey(issue))
       /\ issues_updated' = Counted(issues_updated)
       /\ log' = Append(log0, [kind |-> "update_issue", run |-> run,
                               key |-> RequestKey(issue), update |-> updates, ok |-> TRUE])
       /\ UNCHANGED << issue_watchers, fail_budget >>
    \/ /\ ~DryRun
       /\ fail_budget > 0
       /\ fail_budget' = fail_budget - 1
       /\ log' = Append(log0, [kind |-> "update_issue", run |-> run,
                               key |-> RequestKey(issue), update |-> updates, ok |-> FALSE])
       /\ issues_updated' = Uncounted(issues_updated)
       /\ UNCHANGED tracker_vars

\* RemapProcessIssue staging the request of an issue and sending it when
\* the next issue of the page is processed
RemapProcessIssue_deferred ==
    /\ pc = "loop"
    /\ scan = "remap"
    /\ idx <= Len(response)
    /\ LET staged  == response[IF idx > 1 THEN idx - 1 ELSE idx]
           updates == RemapUpdates(staged)
           log0    == Append(log, YieldEvent(response[idx]))
       IN  \/ /\ idx > 1 /\ HasUpdates(updates)
              /\ update_issue(staged, [fields |-> updates], log0)
           \/ /\ ~(idx > 1 /\ HasUpdates(updates))
              /\ log' = log0
              /\ UNCHANGED << tracker_vars, fail_budget, issues_updated >>
    /\ idx' = idx + 1
    /\ UNCHANGED << args_vars, pc, run, scan, query, start, response,
                    target_user_watching_keys, query_vars >>

\* lines 148-149 with process_issue, lines 119-146, for one yielded issue
RemapProcessIssue ==
    /\ pc = "loop"
    /\ scan = "remap"
    /\ idx <= Len(response)
    /\ LET issue   == response[idx]
           updates == RemapUpdates(issue)
           log0    == Append(log, YieldEvent(issue))
       IN  \/ /\ HasUpdates(updates)
              /\ update_issue(issue, [fields |-> updates], log0)
           \/ /\ ~HasUpdates(updates)
              /\ log' = log0
              /\ UNCHANGED << tracker_vars, fail_budget, issues_updated >>
    /\ idx' = idx + 1
    /\ UNCHANGED << args_vars, pc, run, scan, query, start, response,
                    target_user_watching_keys, query_vars >>

-----------------------------------------------------------------------------
(* copy_watchers, lines 154-199. *)

\* line 165
source_user_watching_query == WatcherQuery(source_user_id)

\* target_user_watching_query built from the source user's id
target_user_watching_query_swapped == WatcherQuery(source_user_id)

\* line 166
target_user_watching_query == WatcherQuery(target_user_id)

\* line 160
CopySourceUser ==
    /\ pc = "main"
    /\ command = "copy-watchers"
    /\ \/ /\ log' = Append(log, [kind |-> "user", run |-> run,
                                 account_id |-> source_user_id, ok |-> TRUE])
          /\ pc' = "copy_target_user"
          /\ UNCHANGED << args_vars, tracker_vars, fail_budget, run, iter_vars,
                          issues_updated, target_user_watching_keys, query_vars >>
       \/ ReadFails([kind |-> "user", run |-> run,
                     account_id |-> source_user_id, ok |-> FALSE])

\* lines 161-168, 186-188 and the entry of the for-loop of line 189
CopyTargetUser ==
    /\ pc = "copy_target_user"
    /\ \/ /\ log' = Append(log, [kind |-> "user", run |-> run,
                                 account_id |-> target_user_id, ok |-> TRUE])
          /\ issues_updated' = 0
          /\ target_user_watching_keys' = {}
          /\ IterStart("snapshot", target_user_watching_query)
          /\ UNCHANGED << args_vars, tracker_vars, fail_budget, run, query_vars >>
       \/ ReadFails([kind |-> "user", run |-> run,
                     account_id |-> target_user_id, ok |-> FALSE])

\* lines 189-190: the body of the first for-loop for one yielded issue
SnapshotAdd ==
    /\ pc = "loop"
    /\ scan = "snapshot"
    /\ idx <= Len(response)
    /\ target_user_watching_keys' = target_user_watching_keys \cup { response[idx].key }
    /\ log' = Append(log, YieldEvent(response[idx]))
    /\ idx' = idx + 1
    /\ UNCHANGED << args_vars, tracker_vars, fail_budget, pc, run, scan, query,
                    start, response, issues_updated, query_vars >>

\* SnapshotDone leaving the first for-loop at the end of any page, a full
\* one included: the copy scan starts before the snapshot scan is through
SnapshotDone_any_page ==
    /\ pc = "loop"
    /\ idx > Len(response)
    /\ scan = "snapshot"
    /\ IterStart("copy", source_user_watching_query)
    /\ UNCHANGED << args_vars, tracker_vars, fail_budget, run, issues_updated,
                    target_user_watching_keys, log, query_vars >>

\* the first for-loop ends (its generator stopped, lines 49-51) and the
\* second one is entered, lines 192-194
SnapshotDone ==
    /\ pc = "loop"
    /\ idx > Len(response)
    /\ last_page(response)
    /\ scan = "snapshot"
    /\ IterStart("copy", source_user_watching_query)
    /\ UNCHANGED << args_vars, tracker_vars, fail_budget, run, issues_updated,
                    target_user_watching_keys, log, query_vars >>

\* AlreadyWatching with the membership test lost: no issue is skipped
AlreadyWatching_never(key) == FALSE

\* line 195
AlreadyWatching(key) == key \in target_user_watching_keys

\* the nested process_issue, lines 170-184; log0 is the log so far
copy_process_issue(issue, log0) ==
    \/ /\ DryRun
       /\ log' = log0
       /\ UNCHANGED << tracker_vars, fail_budget, issues_updated >>
    \/ /\ ~DryRun
       /\ issue_watchers' = [issue_watchers EXCEPT ![RequestKey(issue)] = @ \cup { target_user_id }]
       /\ issues_updated' = Counted(issues_updated)
       /\ log' = Append(log0, [kind |-> "add_watcher", run |-> run, key |-> RequestKey(issue),
                               account_id |-> target_user_id, ok |-> TRUE])
       /\ UNCHANGED << issue_fields, updated_order, fail_budget >>
    \/ /\ ~DryRun
       /\ fail_budget > 0
       /\ fail_budget' = fail_budget - 1
       /\ log' = Append(log0, [kind |-> "add_watcher", run |-> run, key |-> RequestKey(issue),
                               account_id |-> target_user_id, ok |-> FALSE])
       /\ issues_updated' = Uncounted(issues_updated)
       /\ UNCHANGED tracker_vars

\* lines 194-199: the body of the second for-loop for one yielded issue
CopyIssue ==
    /\ pc = "loop"
    /\ scan = "copy"
    /\ idx <= Len(response)
    /\ LET issue == response[idx]
           log0  == Append(log, YieldEvent(issue))
       IN  \/ /\ AlreadyWatching(issue.key)
              /\ log' = log0
              /\ UNCHANGED << tracker_vars, fail_budget, issues_updated >>
           \/ /\ ~AlreadyWatching(issue.key)
              /\ copy_process_issue(issue, log0)
    /\ idx' = idx + 1
    /\ UNCHANGED << args_vars, pc, run, scan, query, start, response,
                    target_user_watching_keys, query_vars >>

\* the operator runs the same copy-watchers command line again after it
\* ended: a new process, main and copy_watchers from their first line
Rerun ==
    /\ pc = "done"
    /\ command = "copy-watchers"
    /\ run < MaxRuns
    /\ run' = run + 1
    /\ pc' = "main"
    /\ scan' = "none"
    /\ query' = ""
    /\ start' = 0
    /\ response' = << >>
    /\ idx' = 0
    /\ issues_updated' = 0
    /\ target_user_watching_keys' = {}
    /\ UNCHANGED << args_vars, tracker_vars, fail_budget, log, query_vars >>

-----------------------------------------------------------------------------

Next ==
    \/ JqlStart
    \/ JqlPrint
    \/ RemapMyself
    \/ RemapTargetUser
    \/ RemapProcessIssue
    \/ CopySourceUser
    \/ CopyTargetUser
    \/ SnapshotAdd
    \/ SnapshotDone
    \/ CopyIssue
    \/ IterFetch
    \/ IterNextPage
    \/ IterStop
    \/ Rerun

Spec == Init /\ [][Next]_vars

-----------------------------------------------------------------------------
(* The tracker is shared: while a command scans, other users update issues. *)

\* Another user updates issue k between two steps of a running scan: the
\* issue becomes the most recently updated one.
ConcurrentUpdate ==
    /\ pc \in { "fetch", "loop" }
    /\ \E k \in Range(updated_order) :
        /\ updated_order' = OrderAfterUpdate(k)
        /\ updated_order' # updated_order
    /\ UNCHANGED << args_vars, issue_fields, issue_watchers, fail_budget, pc, run,
                    iter_vars, issues_updated, target_user_watching_keys, log,
                    query_vars >>

NextShared ==
    \/ Next
    \/ ConcurrentUpdate

\* the command on a tracker that other users update meanwhile
SpecShared == Init /\ [][NextShared]_vars

-----------------------------------------------------------------------------
(* get_query on its own: the inputs are drawn, the function is applied.    *)

QuerySeeds ==
    { None, Some(""), Some("project = X"), Some("project = X "),
      Some("assignee = alice"), Some("project = X AND"),
      Some("project = X ORDER BY Updated ASC"), Some(" ORDER BY Updated ASC"),
      Some("project = X ORDER BY Created DESC"), Some("Updated >= \"2024-01-01\""),
      Some("x"), Some("\"") }

QueryCutoffs ==
    { None, Some(""), Some("2024-01-01"), Some("2024/01/01 10:00"), Some("-7d"),
      Some(" ORDER BY Updated ASC") }

InitQuery ==
    /\ q_seed \in QuerySeeds
    /\ q_cutoff \in QueryCutoffs
    /\ q_result = None
    /\ command = "jql"
    /\ apply_changes = FALSE
    /\ seed_query = None
    /\ jira_url = "https://jira"
    /\ updated_order = << >>
    /\ issue_fields = [k \in {} |-> DefaultPeople]
    /\ issue_watchers = [k \in {} |-> {}]
    /\ initial_watchers = issue_watchers
    /\ fail_budget = 0
    /\ pc = "get_query"
    /\ run = 1
    /\ scan = "none"
    /\ query = ""
    /\ start = 0
    /\ response = << >>
    /\ idx = 0
    /\ issues_updated = 0
    /\ target_user_watching_keys = {}
    /\ log = << >>

BuildQuery ==
    /\ pc = "get_query"
    /\ q_result' = Some(get_query(q_seed, q_cutoff))
    /\ pc' = "returned"
    /\ UNCHANGED << args_vars, tracker_vars, fail_budget, run, iter_vars,
                    issues_updated, target_user_watching_keys, log, q_seed, q_cutoff >>

NextQuery == BuildQuery

SpecQuery == InitQuery /\ [][NextQuery]_vars

-----------------------------------------------------------------------------
(* One scan against a result set that does not change: the jql command on  *)
(* a tracker nobody updates. The program is sequential and every call      *)
(* returns or raises, so a step that can be taken is taken.                *)

InitScan ==
    /\ command = "jql"
    /\ apply_changes = FALSE
    /\ seed_query \in { Some("project = X"), Some("") }
    /\ jira_url \in { "https://jira", "https://jira/" }
    /\ \E n \in 0..MaxScanIssues :
        /\ updated_order = [i \in 1..n |-> IssueKey(i)]
        /\ issue_fields = [k \in KeysUpTo(n) |-> DefaultPeople]
        /\ issue_watchers = [k \in KeysUpTo(n) |-> {}]
    /\ initial_watchers = issue_watchers
    /\ fail_budget \in { 0, 1 }
    /\ pc = "main"
    /\ run = 1
    /\ scan = "none"
    /\ query = ""
    /\ start = 0
    /\ response = << >>
    /\ idx = 0
    /\ issues_updated = 0
    /\ target_user_watching_keys = {}
    /\ log = << >>
    /\ q_seed = None
    /\ q_cutoff = None
    /\ q_result = None

NextScan ==
    \/ JqlStart
    \/ JqlPrint
    \/ IterFetch
    \/ IterNextPage
    \/ IterStop

SpecScan == InitScan /\ [][NextScan]_vars /\ WF_vars(NextScan)

-----------------------------------------------------------------------------
(* Reading the log. *)

IsRead(e) == e.kind \in { "myself", "user", "search" }

IsMutation(e) == e.kind \in { "update_issue", "add_watcher" }

IsYield(e, sc) == e.kind = "yield" /\ e.scan = sc

\* the fields of a yielded issue that hold the source user
MatchedFields(issue) ==
    { f \in { "creator" } : issue.fields.creator.accountId = source_user_id }
    \cup { f \in { "assignee" } : /\ issue.fields.assignee # None
                                   /\ issue.fields.assignee[1].accountId = source_user_id }
    \cup { f \in { "reporter" } : /\ issue.fields.reporter # None
                                   /\ issue.fields.reporter[1].accountId = source_user_id }

\* the number of issues the remap scan yielded so far that hold the source user
MatchedYields ==
    Cardinality({ i \in DOMAIN log : /\ IsYield(log[i], "remap")
                                     /\ MatchedFields(log[i].issue) # {} })

-----------------------------------------------------------------------------
(* C1. Dry-run: with apply_changes false, whatever the tracker holds and   *)
(* however many issues match, no update_issue and no add_watcher call is   *)
(* ever issued by remap_user or copy_watchers, and the success counter     *)
(* issues_updated is 0 in every state of the run, its last one included.   *)
C1_DryRunSendsNothing ==
    ~apply_changes =>
        /\ \A i \in DOMAIN log : ~IsMutation(log[i])
        /\ issues_updated = 0

\* a dry run of remap-user ended after it met two issues to remap
C1_Witness ==
    /\ ~apply_changes
    /\ command = "remap-user"
    /\ pc = "done"
    /\ MatchedYields >= 2

-----------------------------------------------------------------------------
(* C2. remap_user in apply mode: every yielded issue in which creator,     *)
(* assignee (if present) or reporter (if present) is the source user is    *)
(* followed by exactly one update_issue request for that issue, whose      *)
(* fields are exactly the matched fields, each set to the target user; an  *)
(* issue matching in all three gets one request with all three fields.     *)
C2_OneUpdateWithMatchedFields ==
    apply_changes =>
        \A i \in DOMAIN log :
            (IsYield(log[i], "remap") /\ MatchedFields(log[i].issue) # {}) =>
                /\ i + 1 <= Len(log)
                /\ log[i + 1].kind = "update_issue"
                /\ log[i + 1].key = log[i].issue.key
                /\ log[i + 1].update =
                       [fields |-> [f \in MatchedFields(log[i].issue) |->
                                        [accountId |-> target_user_id]]]
                /\ (i + 2 <= Len(log) => log[i + 2].kind # "update_issue")

\* an issue matching in all three fields was yielded and its request sent,
\* and so was an issue matching in one field only
C2_Witness ==
    /\ apply_changes
    /\ pc = "done"
    /\ \E i \in DOMAIN log :
        /\ IsYield(log[i], "remap")
        /\ MatchedFields(log[i].issue) = { "creator", "assignee", "reporter" }
        /\ log[i + 1].kind = "update_issue"
        /\ DOMAIN log[i + 1].update.fields = { "creator", "assignee", "reporter" }
    /\ \E i \in DOMAIN log :
        /\ IsYield(log[i], "remap")
        /\ Cardinality(MatchedFields(log[i].issue)) = 1

-----------------------------------------------------------------------------
(* C3. remap_user: a yielded issue in which none of creator, assignee and  *)
(* reporter is the source user (assignee or reporter may be absent) gets   *)
(* no update_issue call, and no update request has an empty field set:     *)
(* every update_issue call directly follows the yield of an issue of the   *)
(* same key with a matched field.                                          *)
C3_NoUpdateWithoutMatch ==
    /\ \A i \in DOMAIN log :
        (IsYield(log[i], "remap") /\ MatchedFields(log[i].issue) = {}) =>
            (i + 1 <= Len(log) => log[i + 1].kind # "update_issue")
    /\ \A i \in DOMAIN log :
        log[i].kind = "update_issue" =>
            /\ DOMAIN log[i].update.fields # {}
            /\ i > 1
            /\ IsYield(log[i - 1], "remap")
            /\ log[i - 1].issue.key = log[i].key
            /\ MatchedFields(log[i - 1].issue) # {}

\* an apply run ended that yielded an issue without assignee and reporter
\* and an issue whose assignee and reporter are another user, neither
\* matching, and that updated some other issue
C3_Witness ==
    /\ apply_changes
    /\ command = "remap-user"
    /\ pc = "done"
    /\ \E i \in DOMAIN log :
        /\ IsYield(log[i], "remap")
        /\ MatchedFields(log[i].issue) = {}
        /\ log[i].issue.fields.assignee = None
        /\ log[i].issue.fields.reporter = None
    /\ \E i \in DOMAIN log :
        /\ IsYield(log[i], "remap")
        /\ MatchedFields(log[i].issue) = {}
        /\ log[i].issue.fields.assignee # None
        /\ log[i].issue.fields.reporter # None
    /\ \E i \in DOMAIN log : log[i].kind = "update_issue"

-----------------------------------------------------------------------------
(* Reading the log of copy_watchers. *)

\* the keys the scan sc of run r yielded
YieldKeys(r, sc) ==
    { log[i].issue.key :
        i \in { j \in DOMAIN log : IsYield(log[j], sc) /\ log[j].run = r } }

\* the add_watcher calls of run r, as positions of the log
AddWatcherCalls(r) ==
    { i \in DOMAIN log : log[i].kind = "add_watcher" /\ log[i].run = r }

AddWatcherKeys(r) == { log[i].key : i \in AddWatcherCalls(r) }

\* the keys whose add_watcher call failed in run r
FailedAddKeys(r) == { log[i].key : i \in { j \in AddWatcherCalls(r) : ~log[j].ok } }

\* the issues user u watches, now and before the first run
Watching(u) == { k \in DOMAIN issue_watchers : u \in issue_watchers[k] }
WatchingInitially(u) == { k \in DOMAIN initial_watchers : u \in initial_watchers[k] }

\* the scenario: the tracker holds issues A, B, C, the source user watches
\* all three and the target user watches B
ScenarioABC ==
    /\ command = "copy-watchers"
    /\ WatchingInitially(source_user_id) = { "X-1", "X-2", "X-3" }
    /\ WatchingInitially(target_user_id) = { "X-2" }

-----------------------------------------------------------------------------
-----------------------------------------------------------------------------
WatchingAfterRun(r) ==
    WatchingInitially(target_user_id)
    \cup { log[i].key : i \in { j \in DOMAIN log : /\ log[j].kind = "add_watcher"
                                                  /\ log[j].run <= r
                                                  /\ log[j].ok } }

-----------------------------------------------------------------------------
\* the mutation calls of run r that succeeded, as positions of the log
OkMutations(r) ==
    { i \in DOMAIN log : IsMutation(log[i]) /\ log[i].run = r /\ log[i].ok }

(* C6. In apply mode a failing update_issue or add_watcher call does not   *)
(* abort the run: only a failed read ends a run as failed, every issue     *)
(* yielded later that needs a mutation still gets its call, and in every   *)
(* state, the last one included, the success counter is the number of      *)
(* mutation calls of the run that succeeded; failed calls are not counted. *)
C6_MutationFailureIsNotFatal ==
    apply_changes =>
        /\ issues_updated = Cardinality(OkMutations(run))
        /\ pc = "failed" => (IsRead(log[Len(log)]) /\ ~log[Len(log)].ok)
        /\ \A i \in DOMAIN log :
            /\ (IsYield(log[i], "remap") /\ MatchedFields(log[i].issue) # {}) =>
                    (log[i + 1].kind = "update_issue" /\ log[i + 1].key = log[i].issue.key)
            /\ (/\ IsYield(log[i], "copy")
                /\ log[i].issue.key \notin YieldKeys(log[i].run, "snapshot")) =>
                    (log[i + 1].kind = "add_watcher" /\ log[i + 1].key = log[i].issue.key)

\* a run ended in which a mutation call failed and a later one succeeded
C6_Witness ==
    /\ apply_changes
    /\ pc = "done"
    /\ issues_updated >= 1
    /\ \E i, j \in DOMAIN log :
        /\ i < j
        /\ IsMutation(log[i]) /\ ~log[i].ok
        /\ IsMutation(log[j]) /\ log[j].ok
        /\ log[i].run = log[j].run

-----------------------------------------------------------------------------
(* C7. A failed read (a search fetch, myself or a user lookup) is fatal:   *)
(* the run ends as failed, the read is not retried, and nothing follows it *)
(* in the log: no search, no update_issue and no add_watcher call.         *)
C7_ReadFailureIsFatal ==
    \A i \in DOMAIN log :
        (IsRead(log[i]) /\ ~log[i].ok) =>
            /\ i = Len(log)
            /\ log[i].run = run
            /\ pc = "failed"

\* the fetch of a second page failed after the first page's issue was updated
C7_Witness ==
    /\ pc = "failed"
    /\ log[Len(log)].kind = "search"
    /\ log[Len(log)].start > 0
    /\ \E i \in DOMAIN log : log[i].kind = "update_issue"

-----------------------------------------------------------------------------
Scans == { "jql", "remap", "snapshot", "copy" }

\* the fetches of scan sc of run r, failed ones included
Fetches(r, sc) ==
    SelectSeq(log, LAMBDA e : e.kind = "search" /\ e.run = r /\ e.scan = sc)

\* the issues scan sc of run r yielded, in order
Yielded(r, sc) ==
    LET ys == SelectSeq(log, LAMBDA e : e.kind = "yield" /\ e.run = r /\ e.scan = sc)
    IN  [i \in 1..Len(ys) |-> ys[i].issue]

RECURSIVE Concatenation(_)
\* the pages of a sequence of fetches, one after the other
Concatenation(fetches) ==
    IF fetches = << >> THEN << >>
    ELSE Head(fetches).issues \o Concatenation(Tail(fetches))

\* the for-loop over the scan ended normally
ScanEnded(r, sc) ==
    \/ r < run
    \/ pc = "done"
    \/ sc = "snapshot" /\ scan = "copy"

(* C8. For every scan, iterate_jql_results yields exactly the records of   *)
(* the pages it fetched, in order: what it yielded is, in every state, the *)
(* concatenation of the fetched pages up to the part of the last page not  *)
(* yet consumed, and all of it once the scan ended. No page but the last   *)
(* fetched one is shorter than limit, so no fetch follows a short page,    *)
(* and the scan ends on the first short page, an empty one included.       *)
C8_YieldsConcatenationOfPages ==
    \A r \in 1..run : \A sc \in Scans :
        LET F   == Fetches(r, sc)
            Y   == Yielded(r, sc)
            all == Concatenation(F)
        IN  /\ Len(Y) <= Len(all)
            /\ Y = SubSeq(all, 1, Len(Y))
            /\ F # << >> => Len(all) - Len(Y) <= Len(F[Len(F)].issues)
            /\ \A k \in 1..(Len(F) - 1) : F[k].ok /\ ~(Len(F[k].issues) < limit)
            /\ (F # << >> /\ ScanEnded(r, sc)) =>
                    /\ Y = all
                    /\ F[Len(F)].ok
                    /\ Len(F[Len(F)].issues) < limit

\* a scan ended on an empty page that followed a full page
C8_Witness ==
    /\ pc = "done"
    /\ \E sc \in Scans :
        LET F == Fetches(1, sc)
        IN  /\ Len(F) = 2
            /\ Len(F[1].issues) = limit
            /\ Len(F[2].issues) = 0
            /\ Len(Yielded(1, sc)) = limit

-----------------------------------------------------------------------------
(* C10. The jql command is read-only and a projection: it never issues an  *)
(* update_issue or add_watcher call, and for each issue the iterator       *)
(* yields it prints, before the next yield, exactly one record of key,     *)
(* url (the tracker's url without trailing slashes, /browse/ and the key), *)
(* created and summary of that issue, so the records are in yield order.   *)
C10_DumpIsReadOnlyProjection ==
    command = "jql" =>
        /\ \A i \in DOMAIN log : ~IsMutation(log[i])
        /\ \A i \in DOMAIN log :
            log[i].kind = "yield" =>
                /\ i + 1 <= Len(log)
                /\ log[i + 1].kind = "print"
                /\ log[i + 1].line =
                       [key     |-> log[i].issue.key,
                        url     |-> "https://jira/browse/" \o log[i].issue.key,
                        created |-> log[i].issue.fields.created,
                        summary |-> log[i].issue.fields.summary]
        /\ \A i \in DOMAIN log :
            log[i].kind = "print" => (i > 1 /\ log[i - 1].kind = "yield")

\* three issues were printed by a jql command given a url with slashes
C10_Witness ==
    /\ command = "jql"
    /\ jira_url = "https://jira//"
    /\ pc = "done"
    /\ Cardinality({ i \in DOMAIN log : log[i].kind = "print" }) = 3

-----------------------------------------------------------------------------
(* C9. get_query(seed, cutoff) returns the seed verbatim (nothing when the *)
(* seed is absent), then, when a cutoff is given, the clause               *)
(*  Updated >= "cutoff", then the clause  ORDER BY Updated ASC  once, with *)
(* which every result ends; for "project = X" and no cutoff the result is  *)
(* "project = X ORDER BY Updated ASC". A cutoff is given when it is a      *)
(* non-empty string: get_query tests its truth value.                      *)
C9_QueryIsSeedCutoffSort ==
    q_result # None =>
        LET r     == q_result[1]
            s     == IF q_seed = None THEN "" ELSE q_seed[1]
            given == q_cutoff # None /\ q_cutoff[1] # ""
            rest  == SubSeq(r, Len(s) + 1, Len(r))
        IN  /\ Len(r) >= Len(s)
            /\ SubSeq(r, 1, Len(s)) = s
            /\ EndsWith(r, " ORDER BY Updated ASC")
            /\ given =>
                   rest = " Updated >= \"" \o q_cutoff[1] \o "\"" \o " ORDER BY Updated ASC"
            /\ ~given => rest = " ORDER BY Updated ASC"
            /\ (q_seed = Some("project = X") /\ q_cutoff = None) =>
                   r = "project = X ORDER BY Updated ASC"

\* get_query returned for a seed and a cutoff, both non-empty
C9_Witness ==
    /\ q_seed = Some("project = X")
    /\ q_cutoff = Some("2024-01-01")
    /\ q_result = Some("project = X Updated >= \"2024-01-01\" ORDER BY Updated ASC")

-----------------------------------------------------------------------------
\* the scans whose query asks for the ascending last-updated order
OrderedScans == { "jql", "remap" }

\* no issue occurs twice in a sequence of issues
DistinctKeys(issues) ==
    \A i, j \in DOMAIN issues : i # j => issues[i].key # issues[j].key

(* C11. Pagination is stable under updates made while a scan runs (an      *)
(* updated issue moves to the end of the ascending last-updated order): a  *)
(* scan over that order yields no issue twice and, once it has ended, has  *)
(* yielded every issue that matched its query throughout the scan, which   *)
(* for the queries of jql and remap_user is every issue of the tracker.    *)
C11_PaginationStable ==
    \A r \in 1..run : \A sc \in OrderedScans :
        LET Y == Yielded(r, sc)
        IN  /\ DistinctKeys(Y)
            /\ (Fetches(r, sc) # << >> /\ ScanEnded(r, sc)) =>
                    Range(updated_order) \subseteq { Y[i].key : i \in DOMAIN Y }

-----------------------------------------------------------------------------
(* C12. Every query that jql, remap_user or copy_watchers (in its snapshot *)
(* scan and in its copy scan) passes to the search endpoint ends with the  *)
(* clause ORDER BY Updated ASC.                                            *)
C12_EveryQueryIsOrdered ==
    \A i \in DOMAIN log :
        log[i].kind = "search" => EndsWith(log[i].query, "ORDER BY Updated ASC")

-----------------------------------------------------------------------------
\* the number of issues scan sc of run r had yielded before position i of the log
YieldedBefore(r, sc, i) ==
    Cardinality({ j \in 1..(i - 1) :
                    log[j].kind = "yield" /\ log[j].run = r /\ log[j].scan = sc })

(* C13. Within one scan the first fetch has start offset 0 and every later *)
(* fetch starts at the previous fetch's offset plus the number of records  *)
(* that fetch returned, so the offsets strictly increase and each is the   *)
(* number of records the scan has yielded so far; every fetch asks for     *)
(* limit records, the fixed page size.                                     *)
C13_OffsetsAdvanceByPage ==
    /\ \A r \in 1..run : \A sc \in Scans :
        LET F == Fetches(r, sc)
        IN  /\ F # << >> => F[1].start = 0
            /\ \A k \in 1..(Len(F) - 1) :
                /\ F[k + 1].start = F[k].start + Len(F[k].issues)
                /\ F[k + 1].start > F[k].start
    /\ \A i \in DOMAIN log :
        log[i].kind = "search" =>
            /\ log[i].start = YieldedBefore(log[i].run, log[i].scan, i)
            /\ log[i].limit = limit

\* a scan fetched its second page, at the offset one full page yields
C13_Witness ==
    \E sc \in Scans :
        LET F == Fetches(1, sc)
        IN  /\ Len(F) >= 2
            /\ F[2].ok
            /\ F[2].start = limit
            /\ F[2].issues # << >>

-----------------------------------------------------------------------------
(* C14. Against a result set of N matching issues that does not change,    *)
(* with page size L = limit, the iterator never makes more than            *)
(* floor(N / L) + 1 fetches, and every scan comes to an end; one that ends *)
(* normally has made exactly floor(N / L) + 1 fetches, every page but the  *)
(* last full and the last holding the N mod L remaining records, and has   *)
(* yielded the N issues: two full pages and half a page take 3 fetches,    *)
(* and when N is a positive multiple of L the last fetch returns zero      *)
(* records and ends the scan without error. A scan ends otherwise only     *)
(* when a fetch raised.                                                    *)
C14_FetchesAreNOverLPlusOne ==
    /\ [](LET N == Len(updated_order)
              F == Fetches(1, "jql")
              Y == Yielded(1, "jql")
          IN  /\ Len(F) <= (N \div limit) + 1
              /\ pc = "failed" => ~F[Len(F)].ok
              /\ pc = "done" =>
                    /\ Len(F) = (N \div limit) + 1
                    /\ \A k \in 1..(Len(F) - 1) : Len(F[k].issues) = limit
                    /\ Len(F[Len(F)].issues) = N % limit
                    /\ Len(Y) = N
                    /\ Y = [i \in 1..N |-> IssueRecord(updated_order[i])]
                    /\ \A k \in 1..Len(F) : F[k].ok
                    /\ (N = 2 * limit + (limit \div 2) /\ limit > 1) =>
                            /\ Len(F) = 3
                            /\ Len(F[3].issues) = limit \div 2)
    /\ <>(pc \in { "done", "failed" })

\* a scan of two full pages and a part of a page ended after three fetches
C14_Witness ==
    /\ pc = "done"
    /\ Len(updated_order) = 2 * limit + 1
    /\ Len(Fetches(1, "jql")) = 3
    /\ Len(Yielded(1, "jql")) = 2 * limit + 1

\* a scan of exactly two full pages ended on a third, empty page
C14_WitnessMultiple ==
    /\ pc = "done"
    /\ Len(updated_order) = 2 * limit
    /\ Len(Fetches(1, "jql")) = 3
    /\ Fetches(1, "jql")[3].issues = << >>

-----------------------------------------------------------------------------
\* the mutation requests of run r for issue k, failed ones included
MutationsFor(r, k) ==
    { i \in DOMAIN log : IsMutation(log[i]) /\ log[i].run = r /\ log[i].key = k }

(* C15. In one run of remap_user or copy_watchers at most one mutation     *)
(* request (update_issue, respectively add_watcher) is sent for any issue  *)
(* key, whatever pages the search endpoint returns.                        *)
C15_OneMutationPerIssue ==
    \A r \in 1..run : \A k \in Range(updated_order) :
        Cardinality(MutationsFor(r, k)) <= 1

-----------------------------------------------------------------------------
(* C16. No stale keys: in every state of a run, each issue key that has    *)
(* appeared in an update_issue or add_watcher request was yielded before   *)
(* the request, in the same run, by the scan the request belongs to (the   *)
(* scan of remap_user, the copy scan of copy_watchers).                    *)
C16_MutatedKeysWereYielded ==
    \A i \in DOMAIN log :
        IsMutation(log[i]) =>
            \E j \in 1..(i - 1) :
                /\ log[j].kind = "yield"
                /\ log[j].run = log[i].run
                /\ log[j].scan = (IF log[i].kind = "update_issue" THEN "remap" ELSE "copy")
                /\ log[j].issue.key = log[i].key

\* a second run of copy-watchers sent a request for an issue it yielded,
\* after a first run that sent two
C16_Witness ==
    /\ run = 2
    /\ Cardinality(AddWatcherCalls(1)) >= 2
    /\ AddWatcherCalls(2) # {}
    /\ AddWatcherKeys(2) \subseteq YieldKeys(2, "copy")

-----------------------------------------------------------------------------
\* the positions of the log at which run r worked on its snapshot scan
SnapshotPhase(r) ==
    { i \in DOMAIN log : /\ log[i].kind \in { "search", "yield" }
                         /\ log[i].run = r
                         /\ log[i].scan = "snapshot" }

\* the positions of the log at which run r worked on its copy phase
CopyPhase(r) ==
    { i \in DOMAIN log :
        /\ log[i].run = r
        /\ \/ log[i].kind \in { "search", "yield" } /\ log[i].scan = "copy"
           \/ log[i].kind = "add_watcher" }

(* C17. In copy_watchers the two scans are serialized: in every run the    *)
(* snapshot scan of the issues the target user watches has run to its last *)
(* page (a fetch that succeeded and returned a short page), issuing only   *)
(* read calls, before the first fetch of the source-watcher scan and       *)
(* before any add_watcher call; and during the copy phase the snapshot set *)
(* is what the snapshot scan collected: the copy phase does not modify it. *)
C17_SnapshotBeforeCopy ==
    command = "copy-watchers" =>
        /\ \A r \in 1..run :
            LET F == Fetches(r, "snapshot")
            IN  /\ \A i \in SnapshotPhase(r) : \A j \in CopyPhase(r) : i < j
                /\ CopyPhase(r) # {} =>
                    /\ F # << >>
                    /\ F[Len(F)].ok
                    /\ Len(F[Len(F)].issues) < limit
        /\ scan = "copy" => target_user_watching_keys = YieldKeys(run, "snapshot")

\* a run whose snapshot scan took two fetches went on to add a watcher
C17_Witness ==
    /\ command = "copy-watchers"
    /\ run = 1
    /\ pc = "done"
    /\ Len(Fetches(1, "snapshot")) = 2
    /\ target_user_watching_keys # {}
    /\ \E i \in AddWatcherCalls(1) : log[i].ok

-----------------------------------------------------------------------------
\* the update_issue requests of the run so far, in the order sent
UpdateRequests == SelectSeq(log, LAMBDA e : e.kind = "update_issue")

\* the issues the remap scan yielded that hold the source user, in order
MatchedYielded ==
    SelectSeq(log, LAMBDA e : /\ e.kind = "yield"
                              /\ e.scan = "remap"
                              /\ MatchedFields(e.issue) # {})

(* C18. remap_user sends its update requests in the order in which the     *)
(* iterator yielded the issues they are for, one request per yielded issue *)
(* and no batching: in apply mode the k-th request is for the k-th yielded *)
(* issue that holds the source user, and each request comes right after    *)
(* the yield of its issue, before the next issue is yielded and before the *)
(* next page is fetched.                                                   *)
C18_UpdatesInYieldOrder ==
    (command = "remap-user" /\ apply_changes) =>
        /\ Len(UpdateRequests) = Len(MatchedYielded)
        /\ \A k \in DOMAIN UpdateRequests :
            UpdateRequests[k].key = MatchedYielded[k].issue.key
        /\ \A i \in DOMAIN log :
            log[i].kind = "update_issue" =>
                /\ i > 1
                /\ log[i - 1].kind = "yield"
                /\ log[i - 1].issue.key = log[i].key
                /\ \A j \in 1..(i - 1) :
                    (log[j].kind = "search" /\ log[j].ok /\ log[j].scan = "remap") =>
                        \/ \E n \in DOMAIN log[j].issues : log[j].issues[n].key = log[i].key
                        \/ \E j2 \in (j + 1)..(i - 1) : log[j2].kind = "search"

\* a run sent requests for issues of two pages, the second page's after
\* the second fetch
C18_Witness ==
    /\ command = "remap-user"
    /\ apply_changes
    /\ pc = "done"
    /\ Len(UpdateRequests) >= 3
    /\ \E i, j \in DOMAIN log :
        /\ i < j
        /\ log[i].kind = "search" /\ log[i].start > 0
        /\ log[j].kind = "update_issue"

-----------------------------------------------------------------------------
\* issue k of the tracker holds the source user as creator, assignee or reporter
HoldsSourceUser(k) ==
    \/ issue_fields[k].creator.accountId = source_user_id
    \/ /\ issue_fields[k].assignee # None
       /\ issue_fields[k].assignee[1].accountId = source_user_id
    \/ /\ issue_fields[k].reporter # None
       /\ issue_fields[k].reporter[1].accountId = source_user_id

(* C19. After a run of remap_user in apply mode in which every remote call *)
(* succeeded, on a tracker nothing else modifies and on which a successful *)
(* update makes the issue the most recently updated one, no issue matching *)
(* the query (here every issue of the tracker) still holds the source user *)
(* as creator, assignee or reporter: the command's own updates do not make *)
(* its scan miss an issue.                                                 *)
C19_RemapMissesNoIssue ==
    (/\ command = "remap-user"
     /\ apply_changes
     /\ pc = "done"
     /\ \A i \in DOMAIN log : (IsRead(log[i]) \/ IsMutation(log[i])) => log[i].ok) =>
        \A k \in Range(updated_order) : ~HoldsSourceUser(k)

====
